---- MODULE Spec2Model ----
(***************************************************************************)
(* Lead Response Assistant (src/app.py): the request the app composes     *)
(* from an enquiry and a tone, the cached provider client, and the        *)
(* per-session "last enquiry / last response" slot that the Generate and  *)
(* Regenerate buttons read and write.                                     *)
(*                                                                         *)
(* Text.  Prompt, tone fragments and provider texts are strings, joined   *)
(* with \o as the code joins them with +.  An enquiry is a sequence of    *)
(* characters, so that str.strip() is computed character by character.    *)
(* Module strings are ASCII: the em dash of the source is written "--"    *)
(* and the emoji that open the warning and error texts are left out.      *)
(*                                                                         *)
(* One script run of main() is one action, except that a run which calls  *)
(* the provider is split at the call: the run blocks there (pc[s] is      *)
(* "generate" or "regenerate") until the provider returns or raises.      *)
(* The widget values a run reads (text area, select box, buttons) are the *)
(* parameters of the action that starts the run.                          *)
(***************************************************************************)
EXTENDS Integers, Sequences, FiniteSets, TLC

\* ---------------------------------------------------------------- bounds
MaxLen == 2           \* longest enquiry passed to generate_response directly
MaxRequests == 2      \* provider calls issued in one behaviour

\* browser sessions served by the one process
Sessions == {"s1", "s2"}
Chars == {" ", "a"}
\* arguments of a direct call: every text over Chars up to MaxLen
AnyEnquiry == UNION {[1..n -> Chars] : n \in 0..MaxLen}
\* texts typed into the text area: empty, whitespace only, plain, padded
Enquiries == {<<>>, <<" ">>, <<"a">>, <<" ", "a", " ">>}
Responses == {"draft A", "draft B"}
Errors == {"401 invalid api key", "connection error"}
UnknownTones == {"", "Neutral", "friendly & casual"}

\* ------------------------------------------------------------- constants
MODEL_ID == "llama-3.3-70b-versatile"

SYSTEM_PROMPT ==
    "You are a customer response assistant for a property inspection company.\n"
    \o "\n"
    \o "Your task is to generate a polite, professional, and human-sounding reply to a customer enquiry.\n"
    \o "\n"
    \o "STRICT RULES (must follow):\n"
    \o "- Do NOT assume or guess the cause of the issue\n"
    \o "- Do NOT diagnose the problem\n"
    \o "- Do NOT mention specific causes (roof, leakage, walls, cracks, mold, inspection, repair, pricing, services) unless the customer explicitly mentions them\n"
    \o "- Do NOT offer inspections, callbacks, site visits, or estimates\n"
    \o "- Do NOT make promises or guarantees\n"
    \o "- Do NOT use emojis or overly casual language\n"
    \o "\n"
    \o "RESPONSE GUIDELINES:\n"
    \o "- Acknowledge the customer's concern empathetically\n"
    \o "- Ask only neutral, relevant clarifying questions\n"
    \o "- Suggest only safe and general next steps (observation, keeping area clear, normal ventilation)\n"
    \o "- Avoid technical jargon\n"
    \o "- Keep the tone calm, supportive, and professional\n"
    \o "- Keep the response concise and clear\n"
    \o "- Reply in the same language the customer used\n"
    \o "\n"
    \o "CRITICAL -- Response Formatting Rules (YOU MUST FOLLOW):\n"
    \o "You MUST format your entire response using Markdown with clear section headers. Do NOT write plain paragraphs without structure.\n"
    \o "\n"
    \o "Use this exact template:\n"
    \o "\n"
    \o "---\n"
    \o "\n"
    \o "**Acknowledgement**\n"
    \o "\n"
    \o "(1-2 sentences acknowledging the customer's concern empathetically)\n"
    \o "\n"
    \o "---\n"
    \o "\n"
    \o "**Clarifying Questions**\n"
    \o "\n"
    \o "To understand your situation better, could you share:\n"
    \o "\n"
    \o "1. (First neutral clarifying question)\n"
    \o "2. (Second neutral clarifying question)\n"
    \o "3. (Third neutral clarifying question)\n"
    \o "\n"
    \o "---\n"
    \o "\n"
    \o "**Suggested Next Steps**\n"
    \o "\n"
    \o "In the meantime, here are a few things you can do:\n"
    \o "\n"
    \o "- (First safe, general step)\n"
    \o "- (Second safe, general step)\n"
    \o "- (Third safe, general step)\n"
    \o "\n"
    \o "---\n"
    \o "\n"
    \o "**Closing**\n"
    \o "\n"
    \o "(A warm, professional closing -- let them know someone will get back once they share more details)\n"
    \o "\n"
    \o "---\n"

ToneOptions == <<"Friendly & Casual", "Formal & Professional", "Empathetic & Supportive">>

Tones == {ToneOptions[i] : i \in DOMAIN ToneOptions}

\* ------------------------------------------------------------ str.strip
Whitespace == {" ", "\t", "\n", "\r", "\f"}

RECURSIVE lstrip(_)
lstrip(s) == IF s # <<>> /\ Head(s) \in Whitespace THEN lstrip(Tail(s)) ELSE s

RECURSIVE rstrip(_)
rstrip(s) == IF s # <<>> /\ s[Len(s)] \in Whitespace THEN rstrip(SubSeq(s, 1, Len(s) - 1)) ELSE s

strip(s) == rstrip(lstrip(s))

\* `not enquiry`, the strip() forgotten
Blank_emptyonly(enquiry) == enquiry = <<>>

\* `not enquiry.strip()`
Blank(enquiry) == strip(enquiry) = <<>>

\* ---------------------------------------------------- generate_response
\* a final else that falls back to the first option instead of ""
tone_instruction_fallback(tone) ==
    IF tone = "Formal & Professional"
    THEN "Use a formal, professional tone suitable for corporate communication."
    ELSE IF tone = "Empathetic & Supportive"
    THEN "Use an extra empathetic and supportive tone -- the customer may be stressed."
    ELSE "Use a friendly, casual tone -- like talking to a neighbour."

tone_instruction(tone) ==
    IF tone = "Friendly & Casual"
    THEN "Use a friendly, casual tone -- like talking to a neighbour."
    ELSE IF tone = "Formal & Professional"
    THEN "Use a formal, professional tone suitable for corporate communication."
    ELSE IF tone = "Empathetic & Supportive"
    THEN "Use an extra empathetic and supportive tone -- the customer may be stressed."
    ELSE ""

\* the text of a character sequence
RECURSIVE Text(_)
Text(s) == IF s = <<>> THEN "" ELSE Head(s) \o Text(Tail(s))

\* the user message carrying enquiry.strip()
messages_stripped(enquiry, tone) ==
    << [role |-> "system", content |-> SYSTEM_PROMPT \o "\n\n" \o tone_instruction(tone)],
       [role |-> "user", content |-> strip(enquiry)] >>

\* the enquiry quoted inside the system message
messages_quoting(enquiry, tone) ==
    << [role |-> "system",
        content |-> SYSTEM_PROMPT \o "\n\n" \o tone_instruction(tone) \o "\n\n" \o Text(enquiry)],
       [role |-> "user", content |-> enquiry] >>

messages(enquiry, tone) ==
    << [role |-> "system", content |-> SYSTEM_PROMPT \o "\n\n" \o tone_instruction(tone)],
       [role |-> "user", content |-> enquiry] >>

VARIABLES
    cache,          \* st.cache_resource slot of get_groq_client: <<>> or <<handle>>
    created,        \* number of Groq objects constructed so far
    session_state,  \* st.session_state of each session: a function on its keys
    pc,             \* where each session's script run stands
    locals,         \* enquiry and tone read by the run that is blocked in a call
    inflight,       \* requests handed to the provider and not yet answered
    sent,           \* provider calls issued by the session's latest button press
    screen,         \* what the right-hand column of each session shows
    lastGen,        \* tone and request of the session's last successful Generate
    nreq,           \* provider calls issued by the process
    d_pc,           \* a direct call generate_response(enquiry, tone): its position
    d_args,         \* ... its arguments
    d_request,      \* ... the request it issued
    d_result        \* ... what it returned or raised

vars == <<cache, created, session_state, pc, locals, inflight, sent, screen,
          lastGen, nreq, d_pc, d_args, d_request, d_result>>

uiVars == <<session_state, pc, locals, inflight, sent, screen, lastGen>>

directVars == <<d_pc, d_args, d_request, d_result>>

\* the function without @st.cache_resource: a new Groq object per call
get_groq_client_uncached ==
    [client |-> created + 1, cache |-> <<created + 1>>, created |-> created + 1]

\* get_groq_client(): the handle the call returns, and the cache after it
get_groq_client ==
    IF cache = <<>>
    THEN [client |-> created + 1, cache |-> <<created + 1>>, created |-> created + 1]
    ELSE [client |-> cache[1], cache |-> cache, created |-> created]

\* client.chat.completions.create(model=MODEL_ID, messages=messages, ...)
request(enquiry, tone) ==
    [client |-> get_groq_client.client, model |-> MODEL_ID, messages |-> messages(enquiry, tone)]

NoLocals == [enquiry |-> <<>>, tone |-> ""]

\* session_state.get(key, default)
Get(ss, key, default) == IF key \in DOMAIN ss THEN ss[key] ELSE default

\* lines 287-309 up to the Regenerate button: the card, or the hint
Display(ss) ==
    IF "last_response" \in DOMAIN ss
    THEN [warning |-> FALSE, error |-> <<>>, card |-> <<ss["last_response"]>>,
          regenerate |-> TRUE, info |-> FALSE]
    ELSE [warning |-> FALSE, error |-> <<>>, card |-> <<>>,
          regenerate |-> FALSE, info |-> TRUE]

EmptyState == [k \in {} |-> ""]

UIInit ==
    /\ session_state = [s \in Sessions |-> EmptyState]
    /\ pc = [s \in Sessions |-> "idle"]
    /\ locals = [s \in Sessions |-> NoLocals]
    /\ inflight = [s \in Sessions |-> <<>>]
    /\ sent = [s \in Sessions |-> 0]
    /\ screen = [s \in Sessions |-> Display(EmptyState)]
    /\ lastGen = [s \in Sessions |-> <<>>]

Init ==
    /\ cache = <<>>
    /\ created = 0
    /\ nreq = 0
    /\ UIInit
    /\ d_pc = "off"
    /\ d_args = NoLocals
    /\ d_request = <<>>
    /\ d_result = <<>>

\* the call at lines 106-127 as far as the provider: client looked up, request sent
Call(s, enquiry, tone, at) ==
    /\ nreq < MaxRequests
    /\ cache' = get_groq_client.cache
    /\ created' = get_groq_client.created
    /\ nreq' = nreq + 1
    /\ inflight' = [inflight EXCEPT ![s] = Append(@, request(enquiry, tone))]
    /\ pc' = [pc EXCEPT ![s] = at]

\* Generate button pressed with the text area holding enquiry (lines 274-280)
Generate(s, enquiry, tone) ==
    /\ pc[s] = "idle"
    /\ IF Blank(enquiry)
       THEN /\ screen' = [screen EXCEPT ![s] = [Display(session_state[s]) EXCEPT !.warning = TRUE]]
            /\ sent' = [sent EXCEPT ![s] = 0]
            /\ UNCHANGED <<cache, created, nreq, inflight, pc, locals>>
       ELSE /\ Call(s, enquiry, tone, "generate")
            /\ locals' = [locals EXCEPT ![s] = [enquiry |-> enquiry, tone |-> tone]]
            /\ sent' = [sent EXCEPT ![s] = 1]
            /\ UNCHANGED screen
    /\ UNCHANGED <<session_state, lastGen, directVars>>

\* line 282 left out: only the response is stored
GenerateReturn_responseonly(s, response) ==
    /\ pc[s] = "generate"
    /\ session_state' = [session_state EXCEPT ![s] = ("last_response" :> response) @@ @]
    /\ lastGen' = [lastGen EXCEPT ![s] = <<[tone |-> locals[s].tone, request |-> inflight[s][1]]>>]
    /\ screen' = [screen EXCEPT ![s] = Display(session_state'[s])]
    /\ inflight' = [inflight EXCEPT ![s] = Tail(@)]
    /\ pc' = [pc EXCEPT ![s] = "idle"]
    /\ locals' = [locals EXCEPT ![s] = NoLocals]
    /\ UNCHANGED <<cache, created, nreq, sent, directVars>>

\* the call returned: lines 281-282, then the display block
GenerateReturn(s, response) ==
    /\ pc[s] = "generate"
    /\ session_state' = [session_state EXCEPT ![s] =
            ("last_enquiry" :> locals[s].enquiry) @@ ("last_response" :> response) @@ @]
    /\ lastGen' = [lastGen EXCEPT ![s] = <<[tone |-> locals[s].tone, request |-> inflight[s][1]]>>]
    /\ screen' = [screen EXCEPT ![s] = Display(session_state'[s])]
    /\ inflight' = [inflight EXCEPT ![s] = Tail(@)]
    /\ pc' = [pc EXCEPT ![s] = "idle"]
    /\ locals' = [locals EXCEPT ![s] = NoLocals]
    /\ UNCHANGED <<cache, created, nreq, sent, directVars>>

\* the handler dropping the stored draft before it reports the error
GenerateFail_clearing(s, e) ==
    /\ pc[s] = "generate"
    /\ session_state' = [session_state EXCEPT ![s] = EmptyState]
    /\ screen' = [screen EXCEPT ![s] =
            [Display(EmptyState) EXCEPT !.error = <<"Error from Groq API: " \o e>>]]
    /\ inflight' = [inflight EXCEPT ![s] = Tail(@)]
    /\ pc' = [pc EXCEPT ![s] = "idle"]
    /\ locals' = [locals EXCEPT ![s] = NoLocals]
    /\ UNCHANGED <<cache, created, nreq, sent, lastGen, directVars>>

\* the call raised: lines 283-284, then the display block
GenerateFail(s, e) ==
    /\ pc[s] = "generate"
    /\ screen' = [screen EXCEPT ![s] =
            [Display(session_state[s]) EXCEPT !.error = <<"Error from Groq API: " \o e>>]]
    /\ inflight' = [inflight EXCEPT ![s] = Tail(@)]
    /\ pc' = [pc EXCEPT ![s] = "idle"]
    /\ locals' = [locals EXCEPT ![s] = NoLocals]
    /\ UNCHANGED <<cache, created, nreq, sent, session_state, lastGen, directVars>>

\* the text area's content sent instead of the stored enquiry
RegenerateEnquiry_field(s, enquiry) == enquiry

\* the stored enquiry sent trimmed
RegenerateEnquiry_stripped(s, enquiry) == strip(Get(session_state[s], "last_enquiry", <<>>))

\* the enquiry the Regenerate button sends (line 301)
RegenerateEnquiry(s, enquiry) == Get(session_state[s], "last_enquiry", <<>>)

\* Regenerate button pressed (lines 287-303); the button exists only on a
\* page that was drawn with a response stored
Regenerate(s, enquiry, tone) ==
    /\ pc[s] = "idle"
    /\ screen[s].regenerate
    /\ "last_response" \in DOMAIN session_state[s]
    /\ Call(s, RegenerateEnquiry(s, enquiry), tone, "regenerate")
    /\ locals' = [locals EXCEPT ![s] = [enquiry |-> enquiry, tone |-> tone]]
    /\ sent' = [sent EXCEPT ![s] = 1]
    /\ screen' = [screen EXCEPT ![s] = Display(session_state[s])]
    /\ UNCHANGED <<session_state, lastGen, directVars>>

\* the call returned: line 304, then st.rerun() runs the script again with
\* no button pressed
RegenerateReturn(s, response) ==
    /\ pc[s] = "regenerate"
    /\ session_state' = [session_state EXCEPT ![s] = ("last_response" :> response) @@ @]
    /\ screen' = [screen EXCEPT ![s] = Display(session_state'[s])]
    /\ inflight' = [inflight EXCEPT ![s] = Tail(@)]
    /\ pc' = [pc EXCEPT ![s] = "idle"]
    /\ locals' = [locals EXCEPT ![s] = NoLocals]
    /\ UNCHANGED <<cache, created, nreq, sent, lastGen, directVars>>

\* the handler sending the request once more before it gives up
RegenerateFail_retry(s, e) ==
    /\ pc[s] = "regenerate"
    /\ IF sent[s] < 2
       THEN /\ inflight' = [inflight EXCEPT ![s] = <<@[1]>>]
            /\ sent' = [sent EXCEPT ![s] = @ + 1]
            /\ nreq' = nreq + 1
            /\ UNCHANGED <<pc, locals, screen>>
       ELSE /\ screen' = [screen EXCEPT ![s] = [@ EXCEPT !.error = <<"Error: " \o e>>]]
            /\ inflight' = [inflight EXCEPT ![s] = Tail(@)]
            /\ pc' = [pc EXCEPT ![s] = "idle"]
            /\ locals' = [locals EXCEPT ![s] = NoLocals]
            /\ UNCHANGED <<nreq, sent>>
    /\ UNCHANGED <<cache, created, session_state, lastGen, directVars>>

\* the call raised: lines 306-307, under the card already drawn
RegenerateFail(s, e) ==
    /\ pc[s] = "regenerate"
    /\ screen' = [screen EXCEPT ![s] = [@ EXCEPT !.error = <<"Error: " \o e>>]]
    /\ inflight' = [inflight EXCEPT ![s] = Tail(@)]
    /\ pc' = [pc EXCEPT ![s] = "idle"]
    /\ locals' = [locals EXCEPT ![s] = NoLocals]
    /\ UNCHANGED <<cache, created, nreq, sent, session_state, lastGen, directVars>>

\* a widget edited, no button pressed: the script runs and redraws
Rerun(s) ==
    /\ pc[s] = "idle"
    /\ screen' = [screen EXCEPT ![s] = Display(session_state[s])]
    /\ UNCHANGED <<cache, created, nreq, session_state, pc, locals, inflight, sent, lastGen, directVars>>

Next ==
    \/ \E s \in Sessions, enquiry \in Enquiries, tone \in Tones : Generate(s, enquiry, tone)
    \/ \E s \in Sessions, response \in Responses : GenerateReturn(s, response)
    \/ \E s \in Sessions, e \in Errors : GenerateFail(s, e)
    \/ \E s \in Sessions, enquiry \in Enquiries, tone \in Tones : Regenerate(s, enquiry, tone)
    \/ \E s \in Sessions, response \in Responses : RegenerateReturn(s, response)
    \/ \E s \in Sessions, e \in Errors : RegenerateFail(s, e)
    \/ \E s \in Sessions : Rerun(s)

Spec == Init /\ [][Next]_vars

\* ------------------------------------- generate_response called directly
AnyTone == Tones \cup UnknownTones

DirectInit ==
    /\ cache = <<>>
    /\ created = 0
    /\ nreq = 0
    /\ UIInit
    /\ d_pc = "ready"
    /\ d_args \in [enquiry : AnyEnquiry, tone : AnyTone]
    /\ d_request = <<>>
    /\ d_result = <<>>

\* lines 106-127: client looked up, messages built, request sent
DirectCall ==
    /\ d_pc = "ready"
    /\ cache' = get_groq_client.cache
    /\ created' = get_groq_client.created
    /\ nreq' = nreq + 1
    /\ d_request' = <<request(d_args.enquiry, d_args.tone)>>
    /\ d_pc' = "called"
    /\ UNCHANGED <<d_args, d_result, uiVars>>

\* line 128: the first choice's text is returned
DirectReturn(response) ==
    /\ d_pc = "called"
    /\ d_result' = <<[kind |-> "return", value |-> response]>>
    /\ d_pc' = "done"
    /\ UNCHANGED <<cache, created, nreq, d_args, d_request, uiVars>>

\* lines 121-128 raise: nothing in generate_response catches
DirectRaise(e) ==
    /\ d_pc = "called"
    /\ d_result' = <<[kind |-> "raise", value |-> e]>>
    /\ d_pc' = "done"
    /\ UNCHANGED <<cache, created, nreq, d_args, d_request, uiVars>>

DirectNext ==
    \/ DirectCall
    \/ \E response \in Responses : DirectReturn(response)
    \/ \E e \in Errors : DirectRaise(e)

SpecDirect == DirectInit /\ [][DirectNext]_vars

\* ================================================================ claims
\* the instruction fragment of each tone of the select box (lines 109-114)
ToneTable ==
    ("Friendly & Casual" :> "Use a friendly, casual tone -- like talking to a neighbour.")
    @@ ("Formal & Professional" :> "Use a formal, professional tone suitable for corporate communication.")
    @@ ("Empathetic & Supportive" :> "Use an extra empathetic and supportive tone -- the customer may be stressed.")

\* empty or whitespace only, character by character
AllWhitespace(e) == \A i \in 1..Len(e) : e[i] \in Whitespace

\* C1: for a non-empty (after trimming) enquiry and a tone of the select
\* box, the request generate_response sends holds exactly two messages:
\* system = policy prompt, "\n\n", the tone's fragment; user = the enquiry
\* as passed, untrimmed.
C1_TwoMessages ==
    (d_pc # "ready" /\ ~AllWhitespace(d_args.enquiry) /\ d_args.tone \in Tones) =>
        /\ Len(d_request) = 1
        /\ Len(d_request[1].messages) = 2
        /\ d_request[1].messages[1] =
               [role |-> "system",
                content |-> SYSTEM_PROMPT \o "\n\n" \o ToneTable[d_args.tone]]
        /\ d_request[1].messages[2] = [role |-> "user", content |-> d_args.enquiry]

\* a padded enquiry has been sent with a tone of the select box
C1_Witness ==
    /\ d_pc = "called"
    /\ d_args.tone = "Formal & Professional"
    /\ ~AllWhitespace(d_args.enquiry)
    /\ strip(d_args.enquiry) # d_args.enquiry
    /\ d_request[1].messages[2].content = d_args.enquiry

\* C5: with a tone outside the select box's options the call goes ahead and
\* sends two messages, the system message being the policy prompt and
\* "\n\n" with an empty fragment after it.
C5_UnknownTone ==
    /\ d_pc = "ready" => ENABLED DirectCall
    /\ (d_pc # "ready" /\ d_args.tone \notin Tones) =>
        /\ Len(d_request) = 1
        /\ Len(d_request[1].messages) = 2
        /\ d_request[1].messages[1] =
               [role |-> "system", content |-> SYSTEM_PROMPT \o "\n\n" \o ""]
        /\ d_request[1].messages[2] = [role |-> "user", content |-> d_args.enquiry]
        /\ \A t \in Tones : d_request[1].messages[1].content # SYSTEM_PROMPT \o "\n\n" \o ToneTable[t]

\* a call with an unknown, non-empty tone has returned a draft
C5_Witness ==
    /\ d_pc = "done"
    /\ d_args.tone = "Neutral"
    /\ d_result[1].kind = "return"
    /\ Len(d_request[1].messages) = 2

HasResponse(s) == "last_response" \in DOMAIN session_state[s]

HasEnquiry(s) == "last_enquiry" \in DOMAIN session_state[s]

\* C2: a Generate press with an empty or whitespace-only enquiry issues no
\* request, shows the warning, and leaves the stored enquiry and response
\* as they were.
C2_BlankRefused ==
    [][\A s \in Sessions, e \in Enquiries, t \in Tones :
          (AllWhitespace(e) /\ Generate(s, e, t)) =>
              /\ nreq' = nreq
              /\ created' = created
              /\ inflight' = inflight
              /\ pc'[s] = "idle"
              /\ sent'[s] = 0
              /\ screen'[s].warning
              /\ session_state' = session_state]_vars

\* the warning is up in a session that holds a draft, which is still shown
C2_Witness ==
    \E s \in Sessions :
        /\ screen[s].warning
        /\ HasResponse(s)
        /\ screen[s].card = <<session_state[s]["last_response"]>>
        /\ inflight[s] = <<>>

ErrorPrefixes == {"Error from Groq API: ", "Error: "}

\* C3: when the provider call of a Generate or a Regenerate fails, an error
\* carrying the provider's message is shown, the stored response and
\* enquiry are unchanged, the previous draft is still the one displayed,
\* and a session that had generated nothing still shows the hint.
C3_FailureKeepsDraft ==
    [][\A s \in Sessions, e \in Errors :
          (GenerateFail(s, e) \/ RegenerateFail(s, e)) =>
              /\ \E p \in ErrorPrefixes : screen'[s].error = <<p \o e>>
              /\ session_state' = session_state
              /\ screen'[s].card = screen[s].card
              /\ HasResponse(s) => screen'[s].card = <<session_state[s]["last_response"]>>
              /\ ~HasResponse(s) =>
                    /\ screen'[s].card = <<>>
                    /\ screen'[s].info
                    /\ ~screen'[s].regenerate
                    /\ DOMAIN session_state'[s] = {}]_vars

\* an error is shown next to a draft stored before the failing call
C3_Witness ==
    \E s \in Sessions :
        /\ screen[s].error # <<>>
        /\ pc[s] = "idle"
        /\ HasResponse(s)
        /\ screen[s].card = <<session_state[s]["last_response"]>>

\* C4: a Regenerate pressed with the tone of the last successful Generate
\* sends the request that Generate sent: same two messages.
C4_RegenerateSameRequest ==
    \A s \in Sessions :
        (pc[s] = "regenerate" /\ lastGen[s] # <<>> /\ locals[s].tone = lastGen[s][1].tone) =>
            /\ Len(inflight[s]) = 1
            /\ inflight[s][1].messages = lastGen[s][1].request.messages
            /\ inflight[s][1].model = lastGen[s][1].request.model

\* a Regenerate with the same tone is waiting for the provider, the stored
\* enquiry being a padded one
C4_Witness ==
    \E s \in Sessions :
        /\ pc[s] = "regenerate"
        /\ lastGen[s] # <<>>
        /\ locals[s].tone = lastGen[s][1].tone
        /\ strip(session_state[s]["last_enquiry"]) # session_state[s]["last_enquiry"]

\* the requests the state remembers, each with the tone it was built for
Issued ==
    {[tone |-> locals[s].tone, request |-> inflight[s][i]] :
        s \in {x \in Sessions : inflight[x] # <<>>}, i \in {1}}
    \cup {lastGen[s][1] : s \in {x \in Sessions : lastGen[x] # <<>>}}

\* C6: in every request the first message is the system message and begins
\* with the policy prompt; requests built for the same tone carry the same
\* system message whatever their enquiries.
C6_SystemMessageFixed ==
    /\ \A r \in Issued :
          /\ r.request.messages[1].role = "system"
          /\ \E t \in Tones :
                r.request.messages[1].content = SYSTEM_PROMPT \o ("\n\n" \o ToneTable[t])
    /\ \A r1, r2 \in Issued :
          r1.tone = r2.tone => r1.request.messages[1] = r2.request.messages[1]

\* two requests for one tone with different enquiries
C6_Witness ==
    \E r1, r2 \in Issued :
        /\ r1.tone = r2.tone
        /\ r1.request.messages[2].content # r2.request.messages[2].content

\* C7: the Groq handle is created at most once, by the first request, and
\* every request of every session uses that handle; the cache slot, once
\* filled, keeps it.
C7_OneClient ==
    /\ created <= 1
    /\ nreq = 0 => (cache = <<>> /\ created = 0)
    /\ nreq > 0 => (cache = <<1>> /\ created = 1)
    /\ \A r \in Issued : cache # <<>> /\ r.request.client = cache[1]

\* one session holds a draft while another session's request is out
C7_Witness ==
    \E s1, s2 \in Sessions :
        /\ s1 # s2
        /\ lastGen[s1] # <<>>
        /\ inflight[s2] # <<>>
        /\ inflight[s2][1].client = lastGen[s1][1].request.client

C9_RegenerateUsesStored ==
    /\ [](\A s \in Sessions :
            pc[s] = "regenerate" =>
                /\ HasEnquiry(s)
                /\ inflight[s][1].messages[2] =
                       [role |-> "user", content |-> session_state[s]["last_enquiry"]]
                /\ inflight[s][1].messages[1] =
                       [role |-> "system",
                        content |-> SYSTEM_PROMPT \o "\n\n" \o ToneTable[locals[s].tone]])
    /\ [][\A s \in Sessions, r \in Responses :
              RegenerateReturn(s, r) =>
                  /\ session_state'[s]["last_response"] = r
                  /\ session_state'[s]["last_enquiry"] = session_state[s]["last_enquiry"]
                  /\ DOMAIN session_state'[s] = DOMAIN session_state[s]
                  /\ screen'[s].card = <<r>>]_vars

\* a Regenerate is out whose text area and tone both differ from what the
\* last Generate used
C9_Witness ==
    \E s \in Sessions :
        /\ pc[s] = "regenerate"
        /\ locals[s].enquiry # session_state[s]["last_enquiry"]
        /\ ~AllWhitespace(locals[s].enquiry)
        /\ locals[s].tone # lastGen[s][1].tone

\* C10: a response is stored only together with an enquiry that is
\* non-empty after trimming; a session that holds a response keeps holding
\* one; so Regenerate never sends an empty or whitespace-only user message.
C10_StoredTogether ==
    /\ [](\A s \in Sessions :
            /\ HasResponse(s) <=> HasEnquiry(s)
            /\ HasResponse(s) => ~AllWhitespace(session_state[s]["last_enquiry"])
            /\ screen[s].regenerate => HasResponse(s)
            /\ pc[s] = "regenerate" => ~AllWhitespace(inflight[s][1].messages[2].content))
    /\ [][\A s \in Sessions :
              /\ HasResponse(s) => HasResponse(s)'
              /\ (~HasResponse(s) /\ HasResponse(s)') => pc[s] = "generate"]_vars

\* a Regenerate is out for a stored, padded enquiry
C10_Witness ==
    \E s \in Sessions :
        /\ pc[s] = "regenerate"
        /\ HasResponse(s)
        /\ Len(session_state[s]["last_enquiry"]) > 1
        /\ inflight[s][1].messages[2].content = session_state[s]["last_enquiry"]

====
